---- MODULE Spec2Model ----
(***************************************************************************)
(* Model of src/app.py: the SPDO application repository page.  One script  *)
(* run per browser session loads table TB_REPO_APPS_AREAS, evaluates the   *)
(* login state and the permission mapping, renders the catalogue and, for  *)
(* the principal mapped to "all", the management tab whose six button      *)
(* handlers write the table through SQL text built by string               *)
(* interpolation.                                                          *)
(*                                                                         *)
(* Text is a sequence of units.  A unit is one of the three characters     *)
(* that SQL and JSON string syntax react to (apostrophe, backslash, double *)
(* quote) or a run of ordinary characters (letters, digits, spaces) whose  *)
(* first character is not an escape letter.  JSON documents are kept       *)
(* structured; the path json.dumps -> SQL string literal -> PARSE_JSON is  *)
(* applied to every string of a document, because the structural           *)
(* characters json.dumps emits are untouched by it.                        *)
(***************************************************************************)
EXTENDS Integers, Sequences, FiniteSets, TLC

VARIABLES table, auth, areas, shown, pc, msg, nops

vars == <<table, auth, areas, shown, pc, msg, nops>>

-----------------------------------------------------------------------------
(* Bounds of the model *)

\* most rows the table holds
MaxRows == 2
\* most projects in one links document
MaxProjects == 2
\* most button presses (handler executions) in one behaviour
MaxOps == 2

Sessions == {"s1", "s2"}

-----------------------------------------------------------------------------
(* Text *)

Q == "'"
BS == "\\"
DQ == "\""

Err == [ok |-> FALSE, val |-> <<>>]
Ok(v) == [ok |-> TRUE, val |-> v]

\* json.dumps of a str: the contents between the quotes
RECURSIVE JsonDumpsStr(_)
JsonDumpsStr(s) ==
    IF s = <<>> THEN <<>>
    ELSE LET c == Head(s)
         IN  (IF c \in {BS, DQ} THEN <<BS, c>> ELSE <<c>>) \o JsonDumpsStr(Tail(s))

\* .replace("'", "\\'")
RECURSIVE ReplaceQuote(_)
ReplaceQuote(s) ==
    IF s = <<>> THEN <<>>
    ELSE LET c == Head(s)
         IN  (IF c = Q THEN <<BS, Q>> ELSE <<c>>) \o ReplaceQuote(Tail(s))

\* The value of the SQL string literal '{body}' as the statement's lexer reads
\* it: a backslash escapes the next character, '' is one apostrophe, and a
\* single apostrophe ends the literal, so that what follows it (or, after a
\* final backslash, the missing end of the literal) is a syntax error.
RECURSIVE SqlLiteral(_, _)
SqlLiteral(body, acc) ==
    IF body = <<>> THEN Ok(acc)
    ELSE LET c == Head(body)
             r == Tail(body)
         IN  IF c = BS
             THEN IF r = <<>> THEN Err ELSE SqlLiteral(Tail(r), Append(acc, Head(r)))
             ELSE IF c = Q
             THEN IF r # <<>> /\ Head(r) = Q
                  THEN SqlLiteral(Tail(r), Append(acc, Q))
                  ELSE Err
             ELSE SqlLiteral(r, Append(acc, c))

\* PARSE_JSON of one string of the document, given the text between its
\* quotes: a bare double quote ends the string early and a backslash must
\* start an escape (\\ or \"), else the document is not valid JSON.
RECURSIVE JsonString(_, _)
JsonString(body, acc) ==
    IF body = <<>> THEN Ok(acc)
    ELSE LET c == Head(body)
             r == Tail(body)
         IN  IF c = DQ THEN Err
             ELSE IF c = BS
             THEN IF r # <<>> /\ Head(r) \in {BS, DQ}
                  THEN JsonString(Tail(r), Append(acc, Head(r)))
                  ELSE Err
             ELSE JsonString(r, Append(acc, c))

\* One string of a links document on its way into the table:
\* json.dumps, the optional quote replacement, the SQL literal, PARSE_JSON.
EscapedIf(escaped, j) == IF escaped THEN ReplaceQuote(j) ELSE j

ParsedIfOk(l) == IF l.ok THEN JsonString(l.val, <<>>) ELSE Err

StoreStr(s, escaped) ==
    ParsedIfOk(SqlLiteral(EscapedIf(escaped, JsonDumpsStr(s)), <<>>))

-----------------------------------------------------------------------------
(* JSON values *)

List(items) == [t |-> "list", items |-> items]
EmptyList == List(<<>>)
\* a non-empty JSON object: valid JSON that is no list
Obj == [t |-> "obj", items |-> <<>>]
\* stored LINKS values that are no JSON: text that does not parse, SQL NULL
LegacyText == [t |-> "text", items |-> <<>>]
SqlNull == [t |-> "sqlnull", items |-> <<>>]

Sublink(u, tu) == [url |-> u, tutorial_url |-> tu]
Project(n, subs) == [name |-> n, sublinks |-> subs]

\* the document parses when each of its parts does
SublinkIfOk(u, tu) == IF u.ok /\ tu.ok THEN Ok(Sublink(u.val, tu.val)) ELSE Err

ProjectIfOk(n, subs) == IF n.ok /\ subs.ok THEN Ok(Project(n.val, subs.val)) ELSE Err

AllOk(rs) ==
    IF \A i \in 1..Len(rs) : rs[i].ok THEN Ok([i \in 1..Len(rs) |-> rs[i].val]) ELSE Err

StoreSublink(sl, escaped) ==
    SublinkIfOk(StoreStr(sl.url, escaped), StoreStr(sl.tutorial_url, escaped))

StoreSublinks(subs, escaped) ==
    AllOk([i \in 1..Len(subs) |-> StoreSublink(subs[i], escaped)])

StoreProject(p, escaped) ==
    ProjectIfOk(StoreStr(p.name, escaped), StoreSublinks(p.sublinks, escaped))

ListIfOk(r) == IF r.ok THEN Ok(List(r.val)) ELSE Err

\* PARSE_JSON('{json.dumps(value)}'): the value the statement stores, or the
\* statement's failure
StoreLinks(value, escaped) ==
    IF value.t = "list"
    THEN ListIfOk(AllOk([i \in 1..Len(value.items) |->
                            StoreProject(value.items[i], escaped)]))
    ELSE Ok(value)

-----------------------------------------------------------------------------
(* Table TB_REPO_APPS_AREAS and the statements run against it *)

\* a row is [name |-> text, links |-> stored value]; the table is a set of rows
Row(n, l) == [name |-> n, links |-> l]

RowsNamed(tbl, n) == {r \in tbl : r.name = n}

\* The uniqueness constraint on NAME that the specification gives the table:
\* a statement that would leave two rows with one name fails.
UniqueViolation(tbl, n) == \E r \in tbl : r.name = n

Failed(tbl) == [ok |-> FALSE, table |-> tbl]
Done(tbl) == [ok |-> TRUE, table |-> tbl]

\* INSERT INTO TB_REPO_APPS_AREAS (NAME, LINKS)
\* SELECT '{new_area}', PARSE_JSON('{json_str}')
SqlInsert(tbl, new_area, links) ==
    LET n == SqlLiteral(new_area, <<>>)
        l == StoreLinks(links, TRUE)
    IN  IF ~n.ok \/ ~l.ok THEN Failed(tbl)
        ELSE IF UniqueViolation(tbl, n.val) THEN Failed(tbl)
        ELSE Done(tbl \cup {Row(n.val, l.val)})

\* UPDATE TB_REPO_APPS_AREAS
\* SET NAME = '{new_area_name}', LINKS = PARSE_JSON('{json_str}')
\* WHERE NAME = '{sel}'
SqlUpdateArea(tbl, sel, new_area_name, links) ==
    LET w == SqlLiteral(sel, <<>>)
        n == SqlLiteral(new_area_name, <<>>)
        l == StoreLinks(links, TRUE)
    IN  IF ~w.ok \/ ~n.ok \/ ~l.ok THEN Failed(tbl)
        ELSE LET hit == RowsNamed(tbl, w.val)
             IN  IF hit = {} THEN Done(tbl)
                 ELSE IF UniqueViolation(tbl \ hit, n.val) THEN Failed(tbl)
                 ELSE Done((tbl \ hit) \cup {Row(n.val, l.val)})

\* UPDATE TB_REPO_APPS_AREAS
\* SET LINKS = PARSE_JSON('{json.dumps(updated_links)}')
\* WHERE NAME = '{sel_area}'
SqlUpdateLinks(tbl, sel_area, links) ==
    LET w == SqlLiteral(sel_area, <<>>)
        l == StoreLinks(links, FALSE)
    IN  IF ~w.ok \/ ~l.ok THEN Failed(tbl)
        ELSE Done((tbl \ RowsNamed(tbl, w.val))
                  \cup {Row(r.name, l.val) : r \in RowsNamed(tbl, w.val)})

\* DELETE FROM TB_REPO_APPS_AREAS WHERE NAME = '{sel}'
SqlDelete(tbl, sel) ==
    LET w == SqlLiteral(sel, <<>>)
    IN  IF ~w.ok THEN Failed(tbl) ELSE Done(tbl \ RowsNamed(tbl, w.val))

-----------------------------------------------------------------------------
(* load_areas_from_sf *)

\* the units of the model in code point order, for ORDER BY NAME
UnitOrder ==
    <<DQ, Q, "Brien", "Cadastramento e Governanca BP", "Coleta Tradicional",
      "None", "O", BS, "hi", "p", "srv", "t", "u", "x">>

UnitRank(u) == CHOOSE i \in 1..Len(UnitOrder) : UnitOrder[i] = u

RECURSIVE NameLess(_, _)
NameLess(a, b) ==
    IF b = <<>> THEN FALSE
    ELSE IF a = <<>> THEN TRUE
    ELSE IF Head(a) = Head(b) THEN NameLess(Tail(a), Tail(b))
    ELSE UnitRank(Head(a)) < UnitRank(Head(b))

\* session.table(...).select("NAME", "LINKS").order_by("NAME").collect()
RECURSIVE Collect(_)
Collect(tbl) ==
    IF tbl = {} THEN <<>>
    ELSE LET first == CHOOSE r \in tbl :
                          \A o \in tbl : o.name = r.name \/ NameLess(r.name, o.name)
         IN  <<first>> \o Collect(tbl \ {first})

\* lines 31-39: a str is decoded with json.loads, a JSONDecodeError leaves [],
\* and so does a NULL
DecodeLinks(raw) ==
    IF raw.t \in {"text", "sqlnull"} THEN EmptyList ELSE raw

\* a load that leaves out the rows whose links do not decode
LoadAreasSkipBad(tbl) ==
    LET df == Collect({r \in tbl : r.links.t # "text"})
    IN  [i \in 1..Len(df) |-> [name |-> df[i].name, links |-> DecodeLinks(df[i].links)]]

LoadAreas(tbl) ==
    LET df == Collect(tbl)
    IN  [i \in 1..Len(df) |-> [name |-> df[i].name, links |-> DecodeLinks(df[i].links)]]

-----------------------------------------------------------------------------
(* Login state and permissions *)

\* user names a session can be logged in with (the credentials of config.yaml)
Users == {"SPDO", "test_user", "guest"}

\* str.lower() on the user names of the model
Lower(u) == IF u = "SPDO" THEN "spdo" ELSE u

\* a permission is "all" or a list of area names
All == [all |-> TRUE, names |-> {}]
Listed(names) == [all |-> FALSE, names |-> names]

\* raw_permissions, whose keys are lower-cased into user_permissions
raw_permissions ==
    [spdo |-> All,
     test_user |-> Listed({<<"Cadastramento e Governanca BP">>, <<"Coleta Tradicional">>})]

\* user_permissions.get(username, []) with username lower-cased
Permitted(username) ==
    LET u == Lower(username)
    IN  IF u \in DOMAIN raw_permissions THEN raw_permissions[u] ELSE Listed({})

\* tab_names with "Gerenciamento" whoever is logged in
HasManageTabForAnyone(permitted) == TRUE

\* tab_names has "Gerenciamento" only when permitted == "all"
HasManageTab(permitted) == permitted.all

\* areas_to_show
AreasToShow(as, permitted) ==
    IF permitted.all THEN as
    ELSE SelectSeq(as, LAMBDA a : a.name \in permitted.names)

\* The view tab renders every shown area: indexing the keys of an object with
\* 'name' raises, and the script run ends there, before the management tab.
ViewRenders(as) == \A i \in 1..Len(as) : as[i].links.t = "list"

LoggedOut == [status |-> "None", username |-> ""]

-----------------------------------------------------------------------------
(* Inputs typed into the forms *)

OBrien == <<"O", Q, "Brien">>
NoneText == <<"None">>

AreaNameTexts == {<<>>, <<"x">>, OBrien}

ProjNameTexts == {<<"p">>, OBrien}

\* what json.loads makes of a text area: a JSONDecodeError or a value
BadJson == [ok |-> FALSE, val |-> EmptyList]
Parsed(v) == [ok |-> TRUE, val |-> v]

LinksTexts ==
    {BadJson, Parsed(Obj), Parsed(EmptyList),
     Parsed(List(<<Project(<<"p">>, <<>>), Project(<<"p">>, <<>>)>>)),
     Parsed(List(<<Project(<<BS, BS, "srv">>, <<>>)>>))}

SublinksTexts == {BadJson, Parsed(<<Sublink(<<"u">>, <<"t">>)>>)}

\* the value of a selectbox: one of its options, None when it has none
Selected(options) == IF options = {} THEN {NoneText} ELSE options

AreaNames(as) == {as[i].name : i \in 1..Len(as)}

\* next(a for a in areas if a["name"] == sel_area)
AreaObj(as, sel_area) ==
    as[CHOOSE i \in 1..Len(as) :
           /\ as[i].name = sel_area
           /\ \A j \in 1..(i - 1) : as[j].name # sel_area]

ProjNames(links) == {links.items[i].name : i \in 1..Len(links.items)}

-----------------------------------------------------------------------------
(* The script run *)

\* what a session's page says of the last button pressed: which handler, and
\* its message
Msg(op, m) == [op |-> op, text |-> m]
NoMsg == Msg("none", "none")

Init ==
    /\ table \in {{}, {Row(<<"x">>, LegacyText)}, {Row(<<"Coleta Tradicional">>, SqlNull)}}
    /\ auth = [s \in Sessions |-> LoggedOut]
    /\ areas = [s \in Sessions |-> <<>>]
    /\ shown = [s \in Sessions |-> <<>>]
    /\ pc = [s \in Sessions |-> "idle"]
    /\ msg = [s \in Sessions |-> NoMsg]
    /\ nops = 0

\* Lines 45-126 for session s logged in as a: the table is loaded, a session
\* that is not authenticated stops, the others get their areas shown and,
\* with the management tab, reach the forms.
RunAs(s, a) ==
    LET loaded == LoadAreas(table)
        permitted == Permitted(a.username)
        view == AreasToShow(loaded, permitted)
        manage == a.status = "True" /\ ViewRenders(view) /\ HasManageTab(permitted)
    IN  /\ areas' = [areas EXCEPT ![s] = IF manage THEN loaded ELSE <<>>]
        /\ shown' = [shown EXCEPT ![s] = IF a.status = "True" THEN view ELSE <<>>]
        /\ pc' = [pc EXCEPT ![s] = IF manage THEN "manage" ELSE "idle"]
        /\ msg' = [msg EXCEPT ![s] = NoMsg]
        /\ UNCHANGED <<table, nops>>

Run(s) ==
    /\ UNCHANGED auth
    /\ RunAs(s, auth[s])

Login(s, u) ==
    /\ auth[s].status # "True"
    /\ auth' = [auth EXCEPT ![s] = [status |-> "True", username |-> u]]
    /\ RunAs(s, auth'[s])

LoginFail(s) ==
    /\ auth[s].status # "True"
    /\ auth' = [auth EXCEPT ![s] = [status |-> "False", username |-> ""]]
    /\ RunAs(s, auth'[s])

Logout(s) ==
    /\ auth[s].status = "True"
    /\ auth' = [auth EXCEPT ![s] = LoggedOut]
    /\ RunAs(s, auth'[s])

\* a pressed button's handler ends its run with message m and the table tbl
Finish(s, op, m, tbl) ==
    /\ pc[s] = "manage"
    /\ nops < MaxOps
    /\ nops' = nops + 1
    /\ table' = tbl
    /\ msg' = [msg EXCEPT ![s] = Msg(op, m)]
    /\ pc' = [pc EXCEPT ![s] = "idle"]
    /\ areas' = [areas EXCEPT ![s] = <<>>]
    /\ UNCHANGED <<auth, shown>>

-----------------------------------------------------------------------------
(* The management tab's handlers *)

\* btn_add_area
AddArea(s, new_area, new_links_json) ==
    IF ~new_links_json.ok THEN Finish(s, "add_area", "invalid_json", table)
    ELSE IF new_links_json.val.t # "list" THEN Finish(s, "add_area", "not_list", table)
    ELSE LET r == SqlInsert(table, new_area, new_links_json.val)
         IN  /\ Cardinality(r.table) <= MaxRows
             /\ Finish(s, "add_area", IF r.ok THEN "success" ELSE "error", r.table)

\* btn_upd_area
UpdArea(s, sel, new_area_name, new_links_json) ==
    /\ sel \in Selected(AreaNames(areas[s]))
    /\ IF ~new_links_json.ok THEN Finish(s, "upd_area", "invalid_json", table)
       ELSE LET r == SqlUpdateArea(table, sel, new_area_name, new_links_json.val)
            IN  Finish(s, "upd_area", IF r.ok THEN "success" ELSE "error", r.table)

\* btn_del_area
DelArea(s, sel) ==
    /\ sel \in Selected(AreaNames(areas[s]))
    /\ LET r == SqlDelete(table, sel)
       IN  Finish(s, "del_area", IF r.ok THEN "success" ELSE "error", r.table)

\* updated_links of btn_add_proj
AddedLinks(links, proj_name, new_sublinks) ==
    List(Append(links.items, Project(proj_name, new_sublinks)))

\* btn_add_proj
AddProj(s, sel_area, proj_name, sublinks_json) ==
    /\ sel_area \in Selected(AreaNames(areas[s]))
    /\ IF ~sublinks_json.ok THEN Finish(s, "add_proj", "invalid_json", table)
       ELSE IF areas[s] = <<>> THEN Finish(s, "add_proj", "error", table)
       ELSE LET area_obj == AreaObj(areas[s], sel_area)
                r == SqlUpdateLinks(table, sel_area,
                                    AddedLinks(area_obj.links, proj_name, sublinks_json.val))
            IN  /\ Len(area_obj.links.items) < MaxProjects
                /\ Finish(s, "add_proj", IF r.ok THEN "success" ELSE "error", r.table)

\* updated_links of btn_upd_proj
UpdatedLinks(links, sel_proj, new_proj_name, updated_sublinks) ==
    List([i \in 1..Len(links.items) |->
             IF links.items[i].name = sel_proj
             THEN Project(new_proj_name, updated_sublinks)
             ELSE links.items[i]])

\* btn_upd_proj
UpdProj(s, sel_area, sel_proj, new_proj_name, new_sublinks_json) ==
    /\ areas[s] # <<>>
    /\ sel_area \in AreaNames(areas[s])
    /\ LET area_links == AreaObj(areas[s], sel_area).links
       IN  /\ area_links.items # <<>>
           /\ sel_proj \in ProjNames(area_links)
           /\ IF ~new_sublinks_json.ok THEN Finish(s, "upd_proj", "invalid_json", table)
              ELSE LET r == SqlUpdateLinks(table, sel_area,
                                UpdatedLinks(area_links, sel_proj, new_proj_name,
                                             new_sublinks_json.val))
                   IN  Finish(s, "upd_proj", IF r.ok THEN "rerun" ELSE "error", r.table)

\* updated_links of btn_del_proj
RemainingLinks(links, sel_proj) ==
    List(SelectSeq(links.items, LAMBDA l : l.name # sel_proj))

\* btn_del_proj
DelProj(s, sel_area, sel_proj) ==
    /\ areas[s] # <<>>
    /\ sel_area \in AreaNames(areas[s])
    /\ LET area_obj == AreaObj(areas[s], sel_area)
       IN  /\ sel_proj \in Selected(ProjNames(area_obj.links))
           /\ LET r == SqlUpdateLinks(table, sel_area,
                                      RemainingLinks(area_obj.links, sel_proj))
              IN  Finish(s, "del_proj", IF r.ok THEN "rerun" ELSE "error", r.table)

\* what one session can do next
Step(s) ==
        \/ Run(s)
        \/ \E u \in Users : Login(s, u)
        \/ LoginFail(s)
        \/ Logout(s)
        \/ \E n \in AreaNameTexts, t \in LinksTexts : AddArea(s, n, t)
        \/ \E sel \in AreaNames(areas[s]) \cup {NoneText},
              n \in AreaNameTexts \cup AreaNames(areas[s]), t \in LinksTexts :
               UpdArea(s, sel, n, t)
        \/ \E sel \in AreaNames(areas[s]) \cup {NoneText} : DelArea(s, sel)
        \/ \E a \in AreaNames(areas[s]) \cup {NoneText},
              n \in ProjNameTexts, t \in SublinksTexts :
               AddProj(s, a, n, t)
        \/ \E a \in AreaNames(areas[s]) :
               \E p \in ProjNames(AreaObj(areas[s], a).links),
                  n \in ProjNameTexts, t \in SublinksTexts :
                   UpdProj(s, a, p, n, t)
        \/ \E a \in AreaNames(areas[s]) :
               \E p \in ProjNames(AreaObj(areas[s], a).links) \cup {NoneText} :
                   DelProj(s, a, p)

Next == \E s \in Sessions : Step(s)

Spec == Init /\ [][Next]_vars

\* one session alone at the table
NextAlone == Step("s1")

SpecAlone == Init /\ [][NextAlone]_vars

-----------------------------------------------------------------------------
(* What the claims speak of *)

SelOptions(s) == AreaNames(areas[s]) \cup {NoneText}
NameInputs(s) == AreaNameTexts \cup AreaNames(areas[s])

\* a links text that is valid JSON and decodes to a sequence
IsList(t) == t.ok /\ t.val.t = "list"

ValidationError == {"invalid_json", "not_list"}
NoError == {"success", "rerun"}

\* what list_areas returns for a table, as a set of areas
Entries(tbl) == {LoadAreas(tbl)[i] : i \in 1..Len(LoadAreas(tbl))}
Area(n, l) == [name |-> n, links |-> l]

\* the links session s read for area a, and the links stored for it
SnapshotLinks(s, a) == AreaObj(areas[s], a).links
StoredLinks(tbl, a) == {DecodeLinks(r.links) : r \in RowsNamed(tbl, a)}

\* nobody wrote area a since session s read it / somebody did
Unchanged(s, a) == StoredLinks(table, a) = {SnapshotLinks(s, a)}
Overwritten(s, a) == RowsNamed(table, a) # {} /\ ~Unchanged(s, a)

Several(links, p) ==
    Cardinality({i \in 1..Len(links.items) : links.items[i].name = p}) >= 2

\* C1: for every links text that is invalid JSON or no sequence, create_area
\* and replace_area fail with a validation error and leave the table as it was.
C1_MalformedLinksRejected ==
    [][\A s \in Sessions, t \in LinksTexts :
           ~IsList(t) =>
               /\ \A n \in AreaNameTexts :
                      AddArea(s, n, t) =>
                          (msg'[s].text \in ValidationError /\ table' = table)
               /\ \A sel \in SelOptions(s), n \in NameInputs(s) :
                      UpdArea(s, sel, n, t) =>
                          (msg'[s].text \in ValidationError /\ table' = table)]_vars

\* C2: a caller that replaces the links of an area somebody else has written
\* since the caller read it succeeds without error, and the stored links are
\* then exactly the links this later writer computed from its snapshot.
C2_LaterWriterWins ==
    [][\A s \in Sessions :
           \A a \in AreaNames(areas[s]) :
               Overwritten(s, a) =>
                   /\ \A t \in LinksTexts :
                          (IsList(t) /\ UpdArea(s, a, a, t)) =>
                              (msg'[s].text \in NoError /\ StoredLinks(table', a) = {t.val})
                   /\ \A n \in ProjNameTexts, t \in SublinksTexts :
                          (t.ok /\ AddProj(s, a, n, t)) =>
                              /\ msg'[s].text \in NoError
                              /\ StoredLinks(table', a) =
                                     {List(SnapshotLinks(s, a).items \o <<Project(n, t.val)>>)}
                   /\ \A p \in ProjNames(SnapshotLinks(s, a)),
                         n \in ProjNameTexts, t \in SublinksTexts :
                          (t.ok /\ UpdProj(s, a, p, n, t)) =>
                              /\ msg'[s].text \in NoError
                              /\ StoredLinks(table', a) =
                                     {UpdatedLinks(SnapshotLinks(s, a), p, n, t.val)}
                   /\ \A p \in ProjNames(SnapshotLinks(s, a)) \cup {NoneText} :
                          DelProj(s, a, p) =>
                              /\ msg'[s].text \in NoError
                              /\ StoredLinks(table', a) =
                                     {RemainingLinks(SnapshotLinks(s, a), p)}]_vars

\* C3: replace_area(A.name, A.name, L) for an existing area A and a valid
\* sequence L makes list_areas return A with links exactly L and every other
\* area as before.
C3_ReplaceRoundTrip ==
    [][\A s \in Sessions :
           \A a \in AreaNames(areas[s]), t \in LinksTexts :
               (IsList(t) /\ RowsNamed(table, a) # {} /\ UpdArea(s, a, a, t)) =>
                   Entries(table') =
                       {e \in Entries(table) : e.name # a} \cup {Area(a, t.val)}]_vars

NamesValid(tbl) ==
    \A r \in tbl : r.name # <<>> /\ \A o \in tbl : o.name = r.name => o = r

\* C4: after every operation each row has a non-empty name and no two rows
\* share a name; create_area with a name already in the table fails and
\* inserts nothing.
C4_NamesNonEmptyUnique ==
    [][/\ NamesValid(table')
       /\ \A s \in Sessions, n \in AreaNameTexts, t \in LinksTexts :
              (IsList(t) /\ RowsNamed(table, n) # {} /\ AddArea(s, n, t)) =>
                  (msg'[s].text = "error" /\ table' = table)]_vars

\* C5: a successful create_area(name, L) with a name not yet in the table makes
\* list_areas return one more area, named exactly name with links equal to L,
\* and all areas it returned before.
C5_CreateThenList ==
    [][\A s \in Sessions, n \in AreaNameTexts, t \in LinksTexts :
           (/\ IsList(t)
            /\ RowsNamed(table, n) = {}
            /\ AddArea(s, n, t)
            /\ msg'[s].text = "success") =>
               /\ Len(LoadAreas(table')) = Len(LoadAreas(table)) + 1
               /\ Entries(table') = Entries(table) \cup {Area(n, t.val)}]_vars

\* C6: delete_area and replace_area addressed to a name that no row has raise
\* no error, report success and leave the table as it was.
C6_MissingNameIsNoOp ==
    [][\A s \in Sessions :
           \A sel \in SelOptions(s) :
               RowsNamed(table, sel) = {} =>
                   /\ DelArea(s, sel) => (msg'[s].text = "success" /\ table' = table)
                   /\ \A n \in NameInputs(s), t \in LinksTexts :
                          (IsList(t) /\ UpdArea(s, sel, n, t)) =>
                              (msg'[s].text = "success" /\ table' = table)]_vars

\* the run of session s that ends in this step
RunOf(s) == Run(s) \/ LoginFail(s) \/ Logout(s) \/ \E u \in Users : Login(s, u)

Visible(permitted, n) == permitted.all \/ n \in permitted.names

\* C7: list_areas never fails on stored content: a run of the page gets every
\* row the principal may see, a row whose stored links are no valid JSON with
\* links [], every other row with its decoded links.
C7_ListNeverFails ==
    [][\A s \in Sessions :
           (RunOf(s) /\ auth'[s].status = "True") =>
               LET permitted == Permitted(auth'[s].username)
                   seen == {shown'[s][i] : i \in 1..Len(shown'[s])}
                   rows == {r \in table : Visible(permitted, r.name)}
               IN  /\ Len(shown'[s]) = Cardinality(rows)
                   /\ \A r \in rows :
                          Area(r.name, IF r.links.t \in {"text", "sqlnull"}
                                       THEN EmptyList ELSE r.links) \in seen]_vars

\* a row with stored links that are no JSON is shown with links []
C7_Witness ==
    \E s \in Sessions :
        \E r \in table :
            /\ r.links.t = "text"
            /\ auth[s].status = "True"
            /\ \E i \in 1..Len(shown[s]) : shown[s][i] = Area(r.name, EmptyList)

\* C8: adding a project to an area nobody else wrote since it was read makes
\* list_areas show the area with its previous projects in their order followed
\* by the one new project, and every other area as before.
C8_AddProjectAppends ==
    [][\A s \in Sessions :
           \A a \in AreaNames(areas[s]), n \in ProjNameTexts, t \in SublinksTexts :
               (t.ok /\ Unchanged(s, a) /\ AddProj(s, a, n, t)) =>
                   Entries(table') =
                       {e \in Entries(table) : e.name # a}
                       \cup {Area(a, List(SnapshotLinks(s, a).items
                                          \o <<Project(n, t.val)>>))}]_vars

MapsToAll(username) ==
    /\ Lower(username) \in DOMAIN raw_permissions
    /\ raw_permissions[Lower(username)] = All

\* C9: a handler runs, and so a write statement is issued, only in a session
\* that is authenticated with a user name mapped to "all"; a principal mapped
\* to a list is shown only areas named in it, and a principal that is not
\* mapped is shown nothing.
C9_WritesNeedAll ==
    [][/\ (nops' # nops \/ table' # table) =>
              \E s \in Sessions :
                  /\ msg'[s] # NoMsg
                  /\ auth[s].status = "True"
                  /\ MapsToAll(auth[s].username)
       /\ \A s \in Sessions :
              /\ pc'[s] = "manage" =>
                     (auth'[s].status = "True" /\ MapsToAll(auth'[s].username))
              /\ (auth'[s].status = "True" /\ ~MapsToAll(auth'[s].username)) =>
                     \A i \in 1..Len(shown'[s]) :
                         /\ Lower(auth'[s].username) \in DOMAIN raw_permissions
                         /\ shown'[s][i].name
                                \in raw_permissions[Lower(auth'[s].username)].names]_vars

\* after a write, a principal mapped to a list sees its area and not the rest
C9_Witness ==
    \E s \in Sessions :
        /\ nops > 0
        /\ auth[s] = [status |-> "True", username |-> "test_user"]
        /\ shown[s] # <<>>
        /\ Len(shown[s]) < Cardinality(table)

\* C10: with several projects of the selected name in an area nobody else
\* wrote, delete-project removes all of them and update-project replaces each
\* by the new value; projects of another name keep value and order.
C10_ProjectsByName ==
    [][\A s \in Sessions :
           \A a \in AreaNames(areas[s]) :
               \A p \in ProjNames(SnapshotLinks(s, a)) :
                   (Several(SnapshotLinks(s, a), p) /\ Unchanged(s, a)) =>
                       /\ DelProj(s, a, p) =>
                              StoredLinks(table', a) =
                                  {List(SelectSeq(SnapshotLinks(s, a).items,
                                                  LAMBDA l : l.name # p))}
                       /\ \A n \in ProjNameTexts, t \in SublinksTexts :
                              (t.ok /\ UpdProj(s, a, p, n, t)) =>
                                  StoredLinks(table', a) =
                                      {List([i \in 1..Len(SnapshotLinks(s, a).items) |->
                                                IF SnapshotLinks(s, a).items[i].name = p
                                                THEN Project(n, t.val)
                                                ELSE SnapshotLinks(s, a).items[i]])}]_vars

====
